---- MODULE Spec2Model ----
(***************************************************************************)
(* Model of waveform-rs (src/src/processor.rs, src/src/lib.rs): the decode *)
(* loop of read_sample over the symphonia collaborator, the two block      *)
(* reducers filter_data / filter_data_v2, the two normalizers              *)
(* normalize_data / normalize_data_v2, and the rayon parallel evaluation   *)
(* of the reducers and normalizers.                                        *)
(*                                                                         *)
(* f32 is modelled as a binary floating-point format with round-to-        *)
(* nearest-even, subnormals, signed zeros, infinities and NaN, whose       *)
(* precision (P bits) and exponent range (Bias) are scaled down from       *)
(* IEEE-754 binary32 (24 bits, bias 127) so that TLC's integers hold every *)
(* intermediate result.                                                    *)
(***************************************************************************)
EXTENDS Integers, Sequences, FiniteSets, TLC

(***************************************************************************)
(* Bounds of the model.                                                    *)
(***************************************************************************)
\* significand bits of the scaled-down f32 (binary32 has 24)
P == 5
\* exponent bias of the scaled-down f32 (binary32 has 127)
Bias == 8
\* longest PCM buffer the decode loop may accumulate
MaxLen == 3
\* most packets the container yields before it only reports errors
MaxPackets == 3

\* samples_per_second.unwrap_or(100)
DefaultSps == 100

(***************************************************************************)
(* f32                                                                     *)
(* A finite value is (-1)^s * m * 2^e with 0 <= m < 2^P and                *)
(* EMin <= e <= EMax; it is normal when m >= 2^(P-1), subnormal or zero    *)
(* when e = EMin and m < 2^(P-1).                                          *)
(***************************************************************************)
EMin == (0 - (P - 1)) - (Bias - 1)
EMax == (0 - (P - 1)) + Bias

Pow2(n) == 2 ^ n

Fin(s, m, e) == [k |-> "fin", s |-> s, m |-> m, e |-> e]
Zero(s) == Fin(s, 0, EMin)
Inf(s) == [k |-> "inf", s |-> s, m |-> 0, e |-> 0]
NaN == [k |-> "nan", s |-> 0, m |-> 0, e |-> 0]
NEG_INFINITY == Inf(1)

IsNaN(x) == x.k = "nan"
IsInf(x) == x.k = "inf"
IsFin(x) == x.k = "fin"
IsZero(x) == x.k = "fin" /\ x.m = 0

\* number of significant bits of a natural number
BitLen(M) == IF M = 0 THEN 0 ELSE CHOOSE b \in 1..30 : Pow2(b - 1) <= M /\ M < Pow2(b)

\* The f32 nearest (ties to even) to (-1)^s * (M + t) * 2^E, where t = 0
\* when ~sticky and 0 < t < 1 when sticky.
Round(s, M, E, sticky) ==
  LET bl == BitLen(M)
      e0 == IF E + bl - P < EMin THEN EMin ELSE E + bl - P
      d  == e0 - E
  IN  IF M = 0 /\ ~sticky THEN Zero(s)
      ELSE IF d <= 0 THEN (IF e0 > EMax THEN Inf(s) ELSE Fin(s, M * Pow2(0 - d), e0))
      ELSE IF d > bl + 1 THEN Zero(s)
      ELSE LET q    == M \div Pow2(d)
               r    == M % Pow2(d)
               half == Pow2(d - 1)
               up   == r > half \/ (r = half /\ (sticky \/ q % 2 = 1))
               q1   == IF up THEN q + 1 ELSE q
               m1   == IF q1 = Pow2(P) THEN Pow2(P - 1) ELSE q1
               e1   == IF q1 = Pow2(P) THEN e0 + 1 ELSE e0
           IN  IF e1 > EMax THEN Inf(s)
               ELSE IF m1 = 0 THEN Zero(s)
               ELSE Fin(s, m1, e1)

\* `n as f32` for an unsigned integer n
FromUsize(n) == Round(0, n, 0, FALSE)

\* f32::abs: clears the sign bit
Abs(x) == IF IsNaN(x) THEN NaN ELSE [x EXCEPT !.s = 0]

\* magnitude order of two non-NaN values: -1, 0, 1
CmpMag(a, b) ==
  IF IsInf(a) THEN (IF IsInf(b) THEN 0 ELSE 1)
  ELSE IF IsInf(b) THEN 0 - 1
  ELSE IF a.e # b.e THEN (IF a.e < b.e THEN 0 - 1 ELSE 1)
  ELSE IF a.m # b.m THEN (IF a.m < b.m THEN 0 - 1 ELSE 1)
  ELSE 0

\* numeric order of two non-NaN values (-0.0 and +0.0 are equal): -1, 0, 1
Cmp(a, b) ==
  IF IsZero(a) /\ IsZero(b) THEN 0
  ELSE IF a.s # b.s THEN (IF a.s = 1 THEN 0 - 1 ELSE 1)
  ELSE IF a.s = 0 THEN CmpMag(a, b) ELSE 0 - CmpMag(a, b)

\* f32::partial_cmp
PartialCmp(a, b) ==
  IF IsNaN(a) \/ IsNaN(b) THEN "None"
  ELSE IF Cmp(a, b) < 0 THEN "Less"
  ELSE IF Cmp(a, b) > 0 THEN "Greater"
  ELSE "Equal"

\* a != 0.0
NeZero(a) == IsNaN(a) \/ ~IsZero(a)

\* f32::max: a NaN argument is ignored
Max(a, b) ==
  IF IsNaN(a) THEN b
  ELSE IF IsNaN(b) THEN a
  ELSE IF Cmp(a, b) < 0 THEN b ELSE a

\* a + b
Add(a, b) ==
  IF IsNaN(a) \/ IsNaN(b) THEN NaN
  ELSE IF IsInf(a) THEN (IF IsInf(b) /\ a.s # b.s THEN NaN ELSE a)
  ELSE IF IsInf(b) THEN b
  ELSE LET e0 == IF a.e < b.e THEN a.e ELSE b.e
           va == (IF a.s = 1 THEN 0 - a.m ELSE a.m) * Pow2(a.e - e0)
           vb == (IF b.s = 1 THEN 0 - b.m ELSE b.m) * Pow2(b.e - e0)
           v  == va + vb
       IN  IF v = 0 THEN Zero(IF a.s = 1 /\ b.s = 1 THEN 1 ELSE 0)
           ELSE IF v < 0 THEN Round(1, 0 - v, e0, FALSE)
           ELSE Round(0, v, e0, FALSE)

\* a * b
Mul(a, b) ==
  LET s == (a.s + b.s) % 2
  IN  IF IsNaN(a) \/ IsNaN(b) THEN NaN
      ELSE IF IsInf(a) THEN (IF IsZero(b) THEN NaN ELSE Inf(s))
      ELSE IF IsInf(b) THEN (IF IsZero(a) THEN NaN ELSE Inf(s))
      ELSE Round(s, a.m * b.m, a.e + b.e, FALSE)

\* a / b
Div(a, b) ==
  LET s == (a.s + b.s) % 2
  IN  IF IsNaN(a) \/ IsNaN(b) THEN NaN
      ELSE IF IsInf(a) THEN (IF IsInf(b) THEN NaN ELSE Inf(s))
      ELSE IF IsInf(b) THEN Zero(s)
      ELSE IF IsZero(b) THEN (IF IsZero(a) THEN NaN ELSE Inf(s))
      ELSE IF IsZero(a) THEN Zero(s)
      ELSE LET K == 2 * P + 2
               N == a.m * Pow2(K)
           IN  Round(s, N \div b.m, (a.e - b.e) - K, N % b.m # 0)

\* stand-in for usize::MAX, the value a saturating float-to-integer cast gives
USIZE_MAX == Pow2(30) - 1

\* `x.floor() as usize`: the cast saturates, and NaN casts to 0
FloorAsUsize(x) ==
  IF IsNaN(x) THEN 0
  ELSE IF x.s = 1 THEN 0
  ELSE IF IsInf(x) THEN USIZE_MAX
  ELSE IF x.e >= 0 THEN x.m * Pow2(x.e)
  ELSE IF 0 - x.e > P THEN 0
  ELSE x.m \div Pow2(0 - x.e)

(***************************************************************************)
(* Sample values                                                           *)
(***************************************************************************)
Neg(x) == IF IsNaN(x) THEN NaN ELSE [x EXCEPT !.s = 1 - x.s]
One == FromUsize(1)
Two == FromUsize(2)
Half == Div(One, Two)
\* 25/64, a sample whose reciprocal is not an f32
Inexact == Div(FromUsize(25), FromUsize(64))
\* the largest finite value and the smallest subnormal
MaxFinite == Fin(0, Pow2(P) - 1, EMax)
MinPositive == Fin(0, 1, EMin)

\* values the decoded frames of the whole-call specification carry
FrameValues == {One, Neg(Half)}
\* values the reducers and normalizers are applied to
SampleValues == {Zero(0), One, Neg(One), Two, Neg(Inexact), MaxFinite, MinPositive, NaN}
\* values of the parallel-evaluation specification
ParValues == {Zero(0), One, Neg(One), Neg(Inexact), NaN}

Min2(a, b) == IF a < b THEN a ELSE b

\* all sequences over S of length at most n
RECURSIVE SeqsUpTo(_, _)
SeqsUpTo(S, n) ==
  IF n = 0 THEN {<<>>}
  ELSE LET R == SeqsUpTo(S, n - 1)
       IN  R \cup {Append(r, x) : r \in {q \in R : Len(q) = n - 1}, x \in S}

(***************************************************************************)
(* Block reducers and normalizers, evaluated left to right.                *)
(***************************************************************************)
Ok(v) == [tag |-> "Ok", v |-> v, msg |-> ""]
Err(msg) == [tag |-> "Err", v |-> <<>>, msg |-> msg]
Panic(msg) == [tag |-> "Panic", v |-> <<>>, msg |-> msg]
Pending == [tag |-> "None", v |-> <<>>, msg |-> ""]

\* Option<T>
None == <<>>
Some(x) == <<x>>
\* Option<u16>::unwrap_or
UnwrapOr(o, d) == IF o = None THEN d ELSE o[1]

\* (duration * samples_per_second as f32).floor() as usize
TargetSamples(duration, samples_per_second) ==
  FloorAsUsize(Mul(duration, FromUsize(UnwrapOr(samples_per_second, DefaultSps))))

\* slice.par_chunks(chunk_size): the number of chunks and chunk i (from 0)
NumChunks(len, chunk_size) == (len + chunk_size - 1) \div chunk_size
Chunk(buf, chunk_size, i) ==
  SubSeq(buf, i * chunk_size + 1, Min2((i + 1) * chunk_size, Len(buf)))

\* chunk.iter().map(|&x| x.abs()).sum::<f32>() over the first n samples
RECURSIVE SumAbs(_, _)
SumAbs(chunk, n) ==
  IF n = 0 THEN Zero(0) ELSE Add(SumAbs(chunk, n - 1), Abs(chunk[n]))

\* the closure of filter_data's map
MeanAbs(chunk) == Div(SumAbs(chunk, Len(chunk)), FromUsize(Len(chunk)))

\* a.abs().partial_cmp(&b.abs()).unwrap_or(Ordering::Equal)
CmpAbs(a, b) ==
  LET o == PartialCmp(Abs(a), Abs(b)) IN IF o = "None" THEN "Equal" ELSE o

\* max_by keeping the earlier of two equal elements
MaxByPickFirst(x, y) == IF CmpAbs(x, y) = "Less" THEN y ELSE x

\* Iterator::max_by folds `match compare(&x, &y) { Greater => x, _ => y }`
MaxByPick(x, y) == IF CmpAbs(x, y) = "Greater" THEN x ELSE y

RECURSIVE MaxByAbs(_, _)
MaxByAbs(chunk, n) ==
  IF n = 1 THEN chunk[1] ELSE MaxByPick(MaxByAbs(chunk, n - 1), chunk[n])

\* the closure of filter_data_v2's map
SignedPeak(chunk) == IF Len(chunk) = 0 THEN Zero(0) ELSE MaxByAbs(chunk, Len(chunk))

\* block_size of filter_data; -1 stands for the division by zero
BlockSizeV1(len, samples) == IF samples = 0 THEN 0 - 1 ELSE len \div samples

\* block_size of filter_data_v2; -1 stands for the division by zero
BlockSizeV2(len, samples) ==
  IF samples = 0 THEN 0 - 1
  ELSE IF len \div samples < 1 THEN 1 ELSE len \div samples

filter_data(audio_buffer_, duration_, samples_per_second) ==
  LET samples    == TargetSamples(duration_, samples_per_second)
      block_size == BlockSizeV1(Len(audio_buffer_), samples)
  IN  IF block_size < 0 THEN Panic("attempt to divide by zero")
      ELSE IF block_size = 0 THEN Panic("chunk_size must not be zero")
      ELSE Ok([i \in 1..NumChunks(Len(audio_buffer_), block_size) |->
                 MeanAbs(Chunk(audio_buffer_, block_size, i - 1))])

filter_data_v2(audio_buffer_, duration_, samples_per_second) ==
  LET samples    == TargetSamples(duration_, samples_per_second)
      block_size == BlockSizeV2(Len(audio_buffer_), samples)
  IN  IF block_size < 0 THEN Panic("attempt to divide by zero")
      ELSE IF block_size = 0 THEN Panic("chunk_size must not be zero")
      ELSE Ok([i \in 1..NumChunks(Len(audio_buffer_), block_size) |->
                 SignedPeak(Chunk(audio_buffer_, block_size, i - 1))])

\* reduce(identity, f32::max) over the first n entries
RECURSIVE FoldMax(_, _, _)
FoldMax(identity, data, n) ==
  IF n = 0 THEN identity ELSE Max(FoldMax(identity, data, n - 1), data[n])

\* the multiplier without the guard against a zero extremum
MultiplierUnguarded(extremum) == Div(One, extremum)

Multiplier(extremum) == IF NeZero(extremum) THEN Div(One, extremum) ELSE One

MaxValue(filtered) == FoldMax(NEG_INFINITY, filtered, Len(filtered))

normalize_data(filtered) ==
  LET multiplier == Multiplier(MaxValue(filtered))
  IN  [i \in 1..Len(filtered) |-> Mul(filtered[i], multiplier)]

\* the extremum taken over the signed values
MaxSignedValue(filtered) == FoldMax(Zero(0), filtered, Len(filtered))

MaxAbsValue(filtered) ==
  FoldMax(Zero(0), [i \in 1..Len(filtered) |-> Abs(filtered[i])], Len(filtered))

normalize_data_v2(filtered) ==
  LET multiplier == Multiplier(MaxAbsValue(filtered))
  IN  [i \in 1..Len(filtered) |-> Mul(filtered[i], multiplier)]

(***************************************************************************)
(* The collaborator: what symphonia's probe, format reader and decoder may *)
(* answer.                                                                 *)
(***************************************************************************)
CODEC_TYPE_NULL == "null"

Track(id, codec, rate) == [id |-> id, codec |-> codec, sample_rate |-> rate]

\* the track lists a probed container may hold
Containers ==
  { <<>>,
    <<Track(0, CODEC_TYPE_NULL, Some(1))>>,
    <<Track(0, CODEC_TYPE_NULL, Some(1)), Track(1, CODEC_TYPE_NULL, None)>>,
    <<Track(0, "pcm", None)>>,
    <<Track(0, "pcm", Some(1)), Track(1, "pcm", Some(100))>>,
    <<Track(0, CODEC_TYPE_NULL, Some(1)), Track(1, "flac", Some(100))>> }

\* the errors next_packet and decode may report
Errors == {"IoError", "ResetRequired", "DecodeError"}

Frame(channels, capacity, samples) ==
  [channels |-> channels, capacity |-> capacity, samples |-> samples]

\* the frames a decoder may produce: channels, capacity in frames, and the
\* interleaved samples copy_interleaved_ref yields (frames * channels)
Frames ==
  {Frame(1, 1, <<x>>) : x \in FrameValues}
    \cup {Frame(1, 2, <<One>>), Frame(1, 1, <<>>)}
    \cup {Frame(2, 1, <<x, Neg(Half)>>) : x \in FrameValues}
    \cup {Frame(3, 1, <<One, One, One>>)}

NoFrame == Frame(0, 0, <<>>)
NoTrack == Track(0 - 1, CODEC_TYPE_NULL, None)

\* one answer of the collaborator
Event(op, res, track, frame) ==
  [op |-> op, res |-> res, track |-> track, frame |-> frame]

\* samples_per_second arguments
SpsArgs == {None, Some(1), Some(2)}

VARIABLES
  pc,            \* position of the call
  variant,       \* 1: audio_to_waveform, 2: audio_to_waveform_v2
  tracks,        \* format.tracks()
  track,         \* the selected track
  track_id,
  sample_rate,
  sample_count,
  audio_buffer,  \* read_sample's accumulating buffer
  read,          \* what read_sample returned: Ok((audio_buffer, duration)) or Err
  duration,
  sps,           \* the samples_per_second argument
  filtered_data,
  result,        \* what the call returned, or the panic that ended it
  log,           \* history of the collaborator's answers
  slots,         \* parallel collect: the output vector being filled by index
  parts          \* parallel reduce: partial results, left to right

vars == <<pc, variant, tracks, track, track_id, sample_rate, sample_count,
          audio_buffer, read, duration, sps, filtered_data, result, log,
          slots, parts>>

parVars == <<slots, parts>>
decodeVars == <<tracks, track, track_id, sample_rate, sample_count, audio_buffer, log>>

Init ==
  /\ pc = "start"
  /\ variant \in {1, 2}
  /\ tracks = <<>>
  /\ track = NoTrack
  /\ track_id = 0 - 1
  /\ sample_rate = 0
  /\ sample_count = 0
  /\ audio_buffer = <<>>
  /\ read = Pending
  /\ duration = Zero(0)
  /\ sps = None
  /\ filtered_data = <<>>
  /\ result = Pending
  /\ log = <<>>
  /\ slots = <<>>
  /\ parts = <<>>

\* the call ends: `?` hands an Err to the caller, a panic unwinds
Fail(r) ==
  /\ pc' = "done"
  /\ result' = r
  /\ read' = IF r.tag = "Err" THEN r ELSE read

\* read_sample, lines 45-59: probe the byte stream
Probe ==
  /\ pc = "start"
  /\ \/ /\ Fail(Err("Error while probing format"))
        /\ UNCHANGED tracks
     \/ \E c \in Containers :
          /\ tracks' = c
          /\ pc' = "probed"
          /\ UNCHANGED <<read, result>>
  /\ UNCHANGED <<variant, track, track_id, sample_rate, sample_count, audio_buffer,
                 duration, sps, filtered_data, log, parVars>>

\* the first track whose codec is not CODEC_TYPE_NULL, if any
Supported(ts) == {i \in 1..Len(ts) : ts[i].codec # CODEC_TYPE_NULL}
FirstSupported(ts) == CHOOSE i \in Supported(ts) : \A j \in Supported(ts) : i <= j

\* read_sample, lines 61-65: .find(..).expect("no supported audio tracks")
SelectTrack ==
  /\ pc = "probed"
  /\ IF Supported(tracks) = {}
       THEN /\ Fail(Panic("no supported audio tracks"))
            /\ UNCHANGED track
       ELSE /\ track' = tracks[FirstSupported(tracks)]
            /\ pc' = "selected"
            /\ UNCHANGED <<read, result>>
  /\ UNCHANGED <<variant, tracks, track_id, sample_rate, sample_count, audio_buffer,
                 duration, sps, filtered_data, log, parVars>>

\* read_sample, lines 67-75: make the decoder, unwrap the sample rate
MakeDecoder ==
  /\ pc = "selected"
  /\ \/ /\ Fail(Err("Error while creating decoder"))
        /\ UNCHANGED <<track_id, sample_rate>>
     \/ /\ track_id' = track.id
        /\ IF track.sample_rate = None
             THEN /\ Fail(Panic("called Option::unwrap() on a None value"))
                  /\ UNCHANGED sample_rate
             ELSE /\ sample_rate' = track.sample_rate[1]
                  /\ pc' = "loop"
                  /\ UNCHANGED <<read, result>>
  /\ sample_count' = 0
  /\ audio_buffer' = <<>>
  /\ UNCHANGED <<variant, tracks, track, duration, sps, filtered_data, log, parVars>>

\* read_sample, lines 113-115, after a `break`
Break ==
  /\ duration' = Div(FromUsize(sample_count), FromUsize(sample_rate))
  /\ read' = Ok(audio_buffer)
  /\ pc' = "decoded"
  /\ UNCHANGED result

TrackIds == {tracks[i].id : i \in 1..Len(tracks)}

\* packets the format reader has handed out so far
PacketsRead == Cardinality({i \in 1..Len(log) : log[i].op = "next_packet" /\ log[i].res = "Ok"})

\* no packet is skipped
SkipNothing(t, id) == FALSE

\* line 90: a packet of another track is skipped
SkipPacket(t, id) == t # id

\* read_sample, lines 78-92: format.next_packet() and the track filter
NextPacket ==
  /\ pc = "loop"
  /\ \/ \E t \in TrackIds :
          /\ PacketsRead < MaxPackets
          /\ log' = Append(log, Event("next_packet", "Ok", t, NoFrame))
          /\ pc' = IF SkipPacket(t, track_id) THEN "loop" ELSE "decode"
          /\ UNCHANGED <<read, result, duration>>
     \/ \E e \in Errors :
          /\ log' = Append(log, Event("next_packet", e, 0 - 1, NoFrame))
          /\ IF e = "ResetRequired"
               THEN Fail(Err("Reset required, not implemented")) /\ UNCHANGED duration
               ELSE IF e = "IoError"
                      THEN Break
                      ELSE Fail(Err("Error reading packet")) /\ UNCHANGED duration
  /\ UNCHANGED <<variant, tracks, track, track_id, sample_rate, sample_count,
                 audio_buffer, sps, filtered_data, parVars>>

\* process_audio_buffer, lines 118-128
process_audio_buffer(audio_buf, buffer) == buffer \o audio_buf.samples

\* a guard that lets 3 channels through
ChannelsUpToThree(audio_buf) == ~(audio_buf.channels > 3)

\* the channel guard of line 96
ChannelsSupported(audio_buf) == ~(audio_buf.channels > 2)

\* packet.track_id() of the packet in hand
PacketTrack == log[Len(log)].track

\* read_sample, lines 94-110: decoder.decode(&packet)
Decode ==
  /\ pc = "decode"
  /\ \/ \E f \in Frames :
          /\ ChannelsSupported(f) => Len(audio_buffer) + Len(f.samples) <= MaxLen
          /\ log' = Append(log, Event("decode", "Ok", PacketTrack, f))
          /\ IF ~ChannelsSupported(f)
               THEN /\ Fail(Err("More than two channels not supported"))
                    /\ UNCHANGED <<sample_count, audio_buffer>>
               ELSE /\ sample_count' = sample_count + f.capacity
                    /\ audio_buffer' = process_audio_buffer(f, audio_buffer)
                    /\ pc' = "loop"
                    /\ UNCHANGED <<read, result>>
          /\ UNCHANGED duration
     \/ \E e \in Errors :
          /\ log' = Append(log, Event("decode", e, PacketTrack, NoFrame))
          /\ IF e = "IoError"
               THEN Break
               ELSE Fail(Err("Error decoding packet")) /\ UNCHANGED duration
          /\ UNCHANGED <<sample_count, audio_buffer>>
  /\ UNCHANGED <<variant, tracks, track, track_id, sample_rate, sps, filtered_data,
                 parVars>>

\* audio_to_waveform, lines 21-22, and audio_to_waveform_v2, lines 37-38
Filter ==
  /\ pc = "decoded"
  /\ \E s \in SpsArgs :
       LET r == IF variant = 1 THEN filter_data(read.v, duration, s)
                               ELSE filter_data_v2(read.v, duration, s)
       IN  /\ sps' = s
           /\ IF r.tag = "Panic"
                THEN /\ pc' = "done"
                     /\ result' = r
                     /\ UNCHANGED filtered_data
                ELSE /\ filtered_data' = r.v
                     /\ pc' = "filtered"
                     /\ UNCHANGED result
  /\ UNCHANGED <<variant, read, duration, decodeVars, parVars>>

\* audio_to_waveform, lines 23-25, and audio_to_waveform_v2, lines 39-41
Normalize ==
  /\ pc = "filtered"
  /\ result' = Ok(IF variant = 1 THEN normalize_data(filtered_data)
                                 ELSE normalize_data_v2(filtered_data))
  /\ pc' = "done"
  /\ UNCHANGED <<variant, read, duration, sps, filtered_data, decodeVars, parVars>>

Next == Probe \/ SelectTrack \/ MakeDecoder \/ NextPacket \/ Decode \/ Filter \/ Normalize

Spec == Init /\ [][Next]_vars

(***************************************************************************)
(* The reducers and normalizers as functions of a decoded buffer: the      *)
(* call resumes where read_sample has returned Ok((audio_buffer,           *)
(* duration)), for every buffer over SampleValues.                         *)
(***************************************************************************)
NumInit ==
  /\ pc = "decoded"
  /\ variant \in {1, 2}
  /\ tracks = <<Track(0, "pcm", Some(1))>>
  /\ track = Track(0, "pcm", Some(1))
  /\ track_id = 0
  /\ sample_rate = 1
  /\ sample_count \in 0..2
  /\ audio_buffer \in SeqsUpTo(SampleValues, MaxLen)
  /\ read = Ok(audio_buffer)
  /\ duration = Div(FromUsize(sample_count), FromUsize(sample_rate))
  /\ sps = None
  /\ filtered_data = <<>>
  /\ result = Pending
  /\ log = <<>>
  /\ slots = <<>>
  /\ parts = <<>>

NumNext == Filter \/ Normalize

NumSpec == NumInit /\ [][NumNext]_vars

(***************************************************************************)
(* The rayon evaluation of the reducers and normalizers: the blocks of     *)
(* par_chunks(..).map(..).collect() and the items of                       *)
(* par_iter().map(..).collect() are computed in any order, and             *)
(* reduce(identity, f32::max) folds any split of the items into contiguous *)
(* segments, each from the identity, and joins neighbouring results in any *)
(* order.                                                                  *)
(***************************************************************************)
EmptySlot == [set |-> FALSE, v |-> Zero(0)]
Filled(v) == [set |-> TRUE, v |-> v]
AllSet(s) == \A i \in 1..Len(s) : s[i].set
Values(s) == [i \in 1..Len(s) |-> s[i].v]
EmptySlots(n) == [i \in 1..n |-> EmptySlot]

\* a collect that appends items in order of completion
CollectArrival(i, s) ==
  CHOOSE j \in 1..Len(s) : ~s[j].set /\ \A k \in 1..(j - 1) : s[k].set

\* collect() of an indexed parallel iterator writes item i at position i
CollectAt(i, s) == i

\* the closure of the reducer's map, by variant
Summary(v, chunk) == IF v = 1 THEN MeanAbs(chunk) ELSE SignedPeak(chunk)

\* block_size, by variant
BlockSize(v, len, samples) ==
  IF v = 1 THEN BlockSizeV1(len, samples) ELSE BlockSizeV2(len, samples)

\* the identity and the items of the normalizer's reduce, by variant
ReduceIdentity(v) == IF v = 1 THEN NEG_INFINITY ELSE Zero(0)
ReduceItems(v, filtered) ==
  IF v = 1 THEN filtered ELSE [i \in 1..Len(filtered) |-> Abs(filtered[i])]

\* the results of the segments that the cuts C make of items[lo..], each
\* folded from the identity
RECURSIVE Leaves(_, _, _, _, _)
Leaves(identity, items, C, lo, hi) ==
  IF hi > Len(items) THEN <<>>
  ELSE IF hi \in C \/ hi = Len(items)
         THEN <<FoldMax(identity, SubSeq(items, lo, hi), hi - lo + 1)>>
                \o Leaves(identity, items, C, hi + 1, hi + 1)
         ELSE Leaves(identity, items, C, lo, hi + 1)

ParInit ==
  /\ pc = "par_start"
  /\ variant \in {1, 2}
  /\ tracks = <<Track(0, "pcm", Some(1))>>
  /\ track = Track(0, "pcm", Some(1))
  /\ track_id = 0
  /\ sample_rate = 1
  /\ sample_count \in 1..2
  /\ audio_buffer \in SeqsUpTo(ParValues, MaxLen)
  /\ read = Ok(audio_buffer)
  /\ duration = Div(FromUsize(sample_count), FromUsize(sample_rate))
  /\ sps = None
  /\ filtered_data = <<>>
  /\ result = Pending
  /\ log = <<>>
  /\ slots = <<>>
  /\ parts = <<>>

\* filter_data, lines 135-137, and filter_data_v2, lines 152-154
ParStart ==
  /\ pc = "par_start"
  /\ \E s \in SpsArgs :
       LET block_size == BlockSize(variant, Len(read.v), TargetSamples(duration, s))
       IN  /\ sps' = s
           /\ IF block_size < 0
                THEN /\ result' = Panic("attempt to divide by zero")
                     /\ pc' = "done"
                     /\ UNCHANGED slots
                ELSE IF block_size = 0
                       THEN /\ result' = Panic("chunk_size must not be zero")
                            /\ pc' = "done"
                            /\ UNCHANGED slots
                       ELSE /\ slots' = EmptySlots(NumChunks(Len(read.v), block_size))
                            /\ pc' = "par_filter"
                            /\ UNCHANGED result
  /\ UNCHANGED <<variant, read, duration, filtered_data, parts, decodeVars>>

\* the block size ParStart computed
ParBlockSize == BlockSize(variant, Len(read.v), TargetSamples(duration, sps))

\* filter_data, lines 139-144, and filter_data_v2, lines 156-165: one block
ParBlock ==
  /\ pc = "par_filter"
  /\ \E i \in 1..Len(slots) :
       /\ ~slots[i].set
       /\ slots' = [slots EXCEPT ![CollectAt(i, slots)] =
                               Filled(Summary(variant, Chunk(read.v, ParBlockSize, i - 1)))]
  /\ UNCHANGED <<pc, variant, read, duration, sps, filtered_data, result, parts, decodeVars>>

\* normalize_data, lines 169-172, and normalize_data_v2, lines 182-185:
\* the collected block summaries are split among the workers
ParSplit ==
  /\ pc = "par_filter"
  /\ AllSet(slots)
  /\ filtered_data' = Values(slots)
  /\ \E C \in SUBSET (1..(Len(slots) - 1)) :
       parts' = IF Len(slots) = 0
                  THEN <<ReduceIdentity(variant)>>
                  ELSE Leaves(ReduceIdentity(variant),
                              ReduceItems(variant, Values(slots)), C, 1, 1)
  /\ slots' = EmptySlots(Len(slots))
  /\ pc' = "par_reduce"
  /\ UNCHANGED <<variant, read, duration, sps, result, decodeVars>>

\* reduce joins two neighbouring partial results
ReduceJoin ==
  /\ pc = "par_reduce"
  /\ \E i \in 1..(Len(parts) - 1) :
       parts' = SubSeq(parts, 1, i - 1) \o <<Max(parts[i], parts[i + 1])>>
                  \o SubSeq(parts, i + 2, Len(parts))
  /\ UNCHANGED <<pc, variant, read, duration, sps, filtered_data, result, slots, decodeVars>>

\* normalize_data, lines 173-178, and normalize_data_v2, lines 187-193: one item
ParScale ==
  /\ pc = "par_reduce"
  /\ Len(parts) = 1
  /\ \E i \in 1..Len(slots) :
       /\ ~slots[i].set
       /\ slots' = [slots EXCEPT ![CollectAt(i, slots)] =
                               Filled(Mul(filtered_data[i], Multiplier(parts[1])))]
  /\ UNCHANGED <<pc, variant, read, duration, sps, filtered_data, result, parts, decodeVars>>

\* the collected output is returned
ParReturn ==
  /\ pc = "par_reduce"
  /\ Len(parts) = 1
  /\ AllSet(slots)
  /\ result' = Ok(Values(slots))
  /\ pc' = "done"
  /\ UNCHANGED <<variant, read, duration, sps, filtered_data, slots, parts, decodeVars>>

ParNext == ParStart \/ ParBlock \/ ParSplit \/ ReduceJoin \/ ParScale \/ ParReturn

ParSpec == ParInit /\ [][ParNext]_vars

(***************************************************************************)
(* Vocabulary of the properties                                            *)
(***************************************************************************)
LastEvent == log[Len(log)]

\* the samples of the frames of track id that the first n answers decoded
RECURSIVE StreamSamples(_, _, _)
StreamSamples(l, id, n) ==
  IF n = 0 THEN <<>>
  ELSE StreamSamples(l, id, n - 1)
         \o (IF l[n].op = "decode" /\ l[n].res = "Ok" /\ l[n].track = id
               THEN l[n].frame.samples ELSE <<>>)

\* the largest f32 below 1.0
OneMinusUlp == Fin(0, Pow2(P) - 1, 0 - P)
\* 1.0 up to the rounding of the reciprocal: 1 - 2^-P <= |v| <= 1
NearOne(v) == Abs(v) = One \/ Abs(v) = OneMinusUlp

\* the smallest normal f32, 2^-(Bias-1), and its reciprocal
MinNormal == Fin(0, Pow2(P - 1), EMin)
MaxRegular == Fin(0, Pow2(P - 1), EMax - 1)
\* x and 1/x are both normal: 2^-(Bias-1) <= |x| <= 2^(Bias-1)
Regular(x) == IsFin(x) /\ CmpMag(x, MinNormal) >= 0 /\ CmpMag(x, MaxRegular) <= 0

AllFinite(buf) == \A i \in 1..Len(buf) : IsFin(buf[i])
AllZero(buf) == \A i \in 1..Len(buf) : IsZero(buf[i])
NoNaN(buf) == \A i \in 1..Len(buf) : ~IsNaN(buf[i])

\* 0 <= v <= 1 and -1 <= v <= 1
InUnit(v) == IsFin(v) /\ Cmp(v, Zero(0)) >= 0 /\ Cmp(v, One) <= 0
InSignedUnit(v) == IsFin(v) /\ CmpMag(v, One) <= 0

\* the sign of a value: -1, 0, 1, and 2 for NaN
Sign(x) == IF IsNaN(x) THEN 2 ELSE IF IsZero(x) THEN 0 ELSE IF x.s = 1 THEN 0 - 1 ELSE 1

\* the entry of greatest magnitude of a sequence of non-NaN values
PeakOf(data) ==
  data[CHOOSE i \in 1..Len(data) : \A j \in 1..Len(data) : CmpMag(data[j], data[i]) <= 0]

\* block i (from 1) of the buffer the reducer was given
BlockOf(i) == LET bs == BlockSize(variant, Len(read.v), TargetSamples(duration, sps))
              IN  SubSeq(read.v, (i - 1) * bs + 1, Min2(i * bs, Len(read.v)))

\* chunk[j] has the greatest magnitude of the chunk
Greatest(chunk, j) == \A k \in 1..Len(chunk) : CmpMag(chunk[k], chunk[j]) <= 0
FirstGreatest(chunk, j) ==
  Greatest(chunk, j) /\ \A k \in 1..(j - 1) : CmpMag(chunk[k], chunk[j]) < 0
LastGreatest(chunk, j) ==
  Greatest(chunk, j) /\ \A k \in (j + 1)..Len(chunk) : CmpMag(chunk[k], chunk[j]) < 0

(***************************************************************************)
(* Properties of the whole call (Spec)                                     *)
(***************************************************************************)
\* C1: whenever a call returns a sequence, for both variants, its length is
\* floor(duration * samples_per_second), with samples_per_second 100 when
\* omitted; stated for the case the claim names in particular, a buffer
\* whose length is at least that count and no multiple of it.
C1_OutputLength ==
  (pc = "done" /\ result.tag = "Ok"
     /\ TargetSamples(duration, sps) > 0
     /\ TargetSamples(duration, sps) <= Len(read.v)
     /\ Len(read.v) % TargetSamples(duration, sps) # 0)
    => Len(result.v) = TargetSamples(duration, sps)

\* C4: variant 1 does not panic when floor(duration * rate) is at least the
\* number of PCM samples.
C4_RateBoundaryNoPanic ==
  (pc = "done" /\ variant = 1 /\ read.tag = "Ok"
     /\ TargetSamples(duration, sps) >= Len(read.v))
    => result.tag # "Panic"

\* C5: for every buffer, duration and rate, filter_data_v2 computes a block
\* size of at least 1 without faulting, and no block it summarizes is empty.
C5_SizeGuard ==
  (pc = "done" /\ variant = 2 /\ read.tag = "Ok")
    => /\ result.tag # "Panic"
       /\ BlockSizeV2(Len(read.v), TargetSamples(duration, sps)) >= 1
       /\ \A i \in 1..Len(filtered_data) : Len(BlockOf(i)) > 0

\* C6: when the probed container has no track of a recognized codec, the
\* call ends with an Err carrying a message, not with a panic and not with
\* an output sequence.
C6_NoTrackIsErr ==
  (pc = "done" /\ Supported(tracks) = {} /\ result.msg # "Error while probing format")
    => (result.tag = "Err" /\ result.msg # "" /\ result.v = <<>>)

\* C7: an IoError from next_packet or from decode ends the loop with Ok and
\* the returned buffer is exactly the samples of the selected track's frames
\* decoded before it, in stream order; ResetRequired and any other error
\* fail the call; a failed call returns no buffer.
C7_DecodeLoopPolicy ==
  /\ read.tag = "Ok" =>
       /\ Len(log) > 0
       /\ LastEvent.res = "IoError"
       /\ \A i \in 1..(Len(log) - 1) : log[i].res = "Ok"
       /\ read.v = StreamSamples(log, track_id, Len(log))
  /\ (Len(log) > 0 /\ LastEvent.res = "IoError") => read.tag = "Ok"
  /\ (Len(log) > 0 /\ LastEvent.res \in {"ResetRequired", "DecodeError"}) =>
       (pc = "done" /\ read.tag = "Err" /\ result.tag = "Err")
  /\ read.tag = "Err" =>
       (pc = "done" /\ result.tag = "Err" /\ read.v = <<>> /\ result.v = <<>>
          /\ filtered_data = <<>>)

\* C7 witness: the loop ended on an IoError of decode after it had decoded
\* frames of the selected track and skipped a packet of another track.
C7_Witness ==
  /\ read.tag = "Ok"
  /\ Len(read.v) >= 2
  /\ LastEvent.op = "decode"
  /\ \E i \in 1..Len(log) :
       log[i].op = "next_packet" /\ log[i].res = "Ok" /\ log[i].track # track_id

\* C8: a decoded frame of more than 2 channels fails the call at that frame
\* with the unsupported-channel error, whatever was decoded before; its
\* samples are never appended and no waveform is returned.
C8_ChannelGuard ==
  \A i \in 1..Len(log) :
    (log[i].op = "decode" /\ log[i].res = "Ok" /\ log[i].frame.channels > 2) =>
      /\ i = Len(log)
      /\ pc = "done"
      /\ result = Err("More than two channels not supported")
      /\ read.tag = "Err"
      /\ audio_buffer = StreamSamples(log, track_id, i - 1)
      /\ filtered_data = <<>>

\* C8 witness: a 3-channel frame arrived after valid frames had been decoded.
C8_Witness ==
  /\ Len(log) > 0
  /\ LastEvent.op = "decode" /\ LastEvent.res = "Ok" /\ LastEvent.frame.channels > 2
  /\ Len(audio_buffer) >= 2

C9_FirstPeak ==
  (pc = "filtered" /\ variant = 2) =>
    \A i \in 1..Len(filtered_data) :
      NoNaN(BlockOf(i)) =>
        \E j \in 1..Len(BlockOf(i)) :
          FirstGreatest(BlockOf(i), j) /\ filtered_data[i] = BlockOf(i)[j]

\* C9 as amended: for every block without NaN samples filter_data_v2 returns
\* the sample of greatest absolute value with its sign, the last of them in
\* block order when several attain it.
C9_LastPeak ==
  (pc = "filtered" /\ variant = 2) =>
    \A i \in 1..Len(filtered_data) :
      NoNaN(BlockOf(i)) =>
        \E j \in 1..Len(BlockOf(i)) :
          LastGreatest(BlockOf(i), j) /\ filtered_data[i] = BlockOf(i)[j]

\* C9 witness: a block holds +x before -x, both of the greatest magnitude.
C9_Witness ==
  /\ pc = "filtered" /\ variant = 2
  /\ \E i \in 1..Len(filtered_data) :
       LET c == BlockOf(i)
       IN  /\ NoNaN(c)
           /\ \E j \in 1..Len(c), k \in 1..Len(c) :
                /\ j < k
                /\ Greatest(c, j) /\ Greatest(c, k)
                /\ c[j].s = 0 /\ c[k].s = 1

(***************************************************************************)
(* Properties of the parallel evaluation (ParSpec)                         *)
(***************************************************************************)
\* what a sequential left-to-right run computes
SeqFiltered ==
  (IF variant = 1 THEN filter_data(read.v, duration, sps)
                  ELSE filter_data_v2(read.v, duration, sps)).v
SeqExtremum == IF variant = 1 THEN MaxValue(SeqFiltered) ELSE MaxAbsValue(SeqFiltered)
SeqOutput ==
  IF variant = 1 THEN normalize_data(SeqFiltered) ELSE normalize_data_v2(SeqFiltered)

\* C10: for both reducers and both normalizers, in whatever order the
\* workers compute the blocks and join the partial maxima, position i holds
\* the (normalized) summary of block i, and the extremum and the whole
\* output are those of a sequential left-to-right run.
C10_ParallelDeterminism ==
  /\ pc = "par_filter" =>
       \A i \in 1..Len(slots) :
         slots[i].set => slots[i].v = Summary(variant, BlockOf(i))
  /\ pc = "par_reduce" =>
       /\ filtered_data = SeqFiltered
       /\ \A i \in 1..Len(filtered_data) :
            filtered_data[i] = Summary(variant, BlockOf(i))
       /\ Len(parts) = 1 => parts[1] = SeqExtremum
       /\ \A i \in 1..Len(slots) : slots[i].set => slots[i].v = SeqOutput[i]
  /\ (pc = "done" /\ result.tag = "Ok") =>
       /\ result.v = SeqOutput
       /\ \A i \in 1..Len(result.v) :
            result.v[i] = Mul(Summary(variant, BlockOf(i)), Multiplier(SeqExtremum))

\* C10 witness: the partial maxima have been joined into one and a later
\* item was normalized before an earlier, different one.
C10_Witness ==
  /\ pc = "par_reduce"
  /\ Len(parts) = 1
  /\ Len(slots) >= 2
  /\ slots[2].set /\ ~slots[1].set
  /\ filtered_data[1] # filtered_data[2]

====
